---- MODULE Spec2Model ----
(***************************************************************************)
(* Model of PreFlocking.cpp / LinkedList.h: a field of ships, a store of   *)
(* expanding ripples, and the glut callbacks that drive them.              *)
(*                                                                         *)
(* Representation of the C++ values:                                       *)
(*  - a LinkedList<E> is the sequence of its node values read from head    *)
(*    along next; insert prepends, removeHead drops the first element and  *)
(*    operator++ rotates the sequence by one; the variable ring is one     *)
(*    LinkedList object in its pointer representation (head, size and the  *)
(*    next, previous and data fields of the nodes), on which SpecList      *)
(*    runs the member functions themselves;                                *)
(*  - a float coordinate (pos, delta, xInc, window extent) is an integer   *)
(*    count of 10^-4 (Unit), or one of the IEEE-754 values Inf, -Inf, NaN; *)
(*  - a ripple radius keeps its exact binary32 value, as an integer count  *)
(*    of 2^-30, because the expiry test depends on the rounding of the     *)
(*    repeated float addition;                                             *)
(*  - the fields id and age of a record and the variables lastEvent, log,  *)
(*    nextId, used and calls are history variables: they record which      *)
(*    callback or member function ran and what it computed, and no         *)
(*    modelled code reads them.                                            *)
(***************************************************************************)
EXTENDS Integers, Sequences, FiniteSets, TLC

VARIABLES shipList, circleList, currColor,
          G_CohesionMultiplier, G_AllignmentMultiplier, G_SeperationMultiplier,
          currWindowSize, windowWidth, windowHeight,
          lastEvent, log, nextId, used,
          ring, calls

vars == <<shipList, circleList, currColor,
          G_CohesionMultiplier, G_AllignmentMultiplier, G_SeperationMultiplier,
          currWindowSize, windowWidth, windowHeight,
          lastEvent, log, nextId, used,
          ring, calls>>

(***************************************************************************)
(* Bounds of the model.                                                    *)
(***************************************************************************)
NBR_SHIPS == 2
MaxEvents == 2
MaxTicks == 2
MaxMult == 2
LifeClicks == 2
MaxRipples == 2
MaxNodes == 3
MaxCalls == 5

(***************************************************************************)
(* Float arithmetic.                                                       *)
(***************************************************************************)
Unit == 10000
Inf == 1000000000
NaN == 2000000000

IsFinite(a) == a > -Inf /\ a < Inf

Abs(a) == IF a < 0 THEN -a ELSE a

\* Integer quotient rounded toward zero.
TruncDiv(a, b) == IF a >= 0 THEN a \div b ELSE -((-a) \div b)

\* Quotient by a positive divisor, rounded to the nearest integer.
RoundDiv(a, b) == IF a >= 0 THEN (2 * a + b) \div (2 * b) ELSE -((2 * (-a) + b) \div (2 * b))

FAdd(a, b) ==
  IF a = NaN \/ b = NaN THEN NaN
  ELSE IF ~IsFinite(a) THEN (IF b = -a THEN NaN ELSE a)
  ELSE IF ~IsFinite(b) THEN b
  ELSE a + b

\* float * int
FMulInt(a, m) ==
  IF a = NaN THEN NaN
  ELSE IF ~IsFinite(a) THEN (IF m = 0 THEN NaN ELSE IF m > 0 THEN a ELSE -a)
  ELSE a * m

\* float / int: IEEE-754 division, a zero divisor gives Inf, -Inf or NaN.
FDivInt(a, n) ==
  IF a = NaN THEN NaN
  ELSE IF n = 0 THEN (IF a > 0 THEN Inf ELSE IF a < 0 THEN -Inf ELSE NaN)
  ELSE IF ~IsFinite(a) THEN (IF n > 0 THEN a ELSE -a)
  ELSE TruncDiv(a, n)

\* Ordered comparisons are false when an operand is NaN.
FLt(a, b) == a # NaN /\ b # NaN /\ a < b
FGt(a, b) == a # NaN /\ b # NaN /\ a > b

RECURSIVE SqrtSearch(_, _, _)
SqrtSearch(n, lo, hi) ==
  IF lo >= hi THEN lo
  ELSE LET mid == (lo + hi + 1) \div 2
       IN IF mid * mid <= n THEN SqrtSearch(n, mid, hi)
          ELSE SqrtSearch(n, lo, mid - 1)

\* Integer square root (floor).
ISqrt(n) == SqrtSearch(n, 0, 46340)

(***************************************************************************)
(* binary32 addition of two non-negative radii, in units of 2^-30: the     *)
(* exact sum rounded to 24 significant bits, ties to even.                 *)
(***************************************************************************)
RECURSIVE Ulp(_)
Ulp(x) == IF x < 16777216 THEN 1 ELSE 2 * Ulp(x \div 2)

RoundToEven(x, u) ==
  LET q == x \div u
      r == x % u
  IN IF 2 * r < u THEN q * u
     ELSE IF 2 * r > u THEN (q + 1) * u
     ELSE IF q % 2 = 0 THEN q * u ELSE (q + 1) * u

FAdd32(a, b) == RoundToEven(a + b, Ulp(a + b))

\* A binary32 radius expressed in Unit, to the nearest Unit.
RadiusUnits(rad) ==
  LET hi == rad \div 65536
      lo == rad % 65536
      scaled == hi * Unit + (lo * Unit) \div 65536
  IN (scaled + 8192) \div 16384

(***************************************************************************)
(* Global constants of PreFlocking.cpp.                                    *)
(***************************************************************************)
INITIAL_RADIUS == 0
FINAL_RADIUS == 536870912
RADIUS_INCREMENT == 10737418
NBR_COLORS == 7
SHIP_RADIUS == 200
VECTOR_SIZE == 100

\* enum color, in declaration order.
ColorOf == <<"white", "red", "yellow", "green", "cyan", "blue", "magenta", "none">>
none == ColorOf[8]
ShipColors == {ColorOf[k] : k \in 1..NBR_COLORS}
Colors == {ColorOf[k] : k \in 1..8}

(***************************************************************************)
(* LinkedList<E>.                                                          *)
(***************************************************************************)
getSizeOneMore(list) == Len(list) + 1

getSize(list) == Len(list)

insert(list, item) == <<item>> \o list

removeHead(list) == IF Len(list) = 0 THEN list ELSE Tail(list)

getHeadValue(list) == Head(list)

IncrNoStep(list) == list

\* operator++
Incr(list) == IF Len(list) = 0 THEN list ELSE Tail(list) \o <<Head(list)>>

\* History only: the record of one call list.getHeadValue() made by the loop
\* `by' on the list named `of': the number of nodes of the list at the call,
\* the value returned and its id (0 and <<>> when there is no head node).
HeadRead(by, of, list) ==
  [by |-> by, of |-> of, size |-> Len(list),
   id |-> IF list = <<>> THEN 0 ELSE Head(list).id,
   val |-> IF list = <<>> THEN <<>> ELSE Head(list)]

\* assert(head != NULL) of getHeadValue has failed in one of the calls: the
\* process has ended there.
Aborted(reads) == \E k \in 1..Len(reads) : reads[k].size = 0

(***************************************************************************)
(* LinkedList<E> in its pointer representation.  A node pointer is NULL or *)
(* one of the addresses Nodes; heap is the set of addresses that new has   *)
(* returned and delete has not yet freed; next, previous and data are the  *)
(* fields of the node at each address.  The fields of an address that is   *)
(* not in heap are kept at NULL: the member functions never read them.     *)
(***************************************************************************)
NULL == 0
Nodes == 1..MaxNodes
Items == {"a", "b"}

\* LinkedList(): head = NULL; size = 0;
EmptyList ==
  [head |-> NULL, size |-> 0, heap |-> {},
   next |-> [a \in 0..MaxNodes |-> NULL],
   previous |-> [a \in 0..MaxNodes |-> NULL],
   data |-> [a \in 0..MaxNodes |-> ""]]

\* getNode: new node at address a, with data = item and both links NULL.
getNode(l, a, item) ==
  [l EXCEPT !.heap = @ \cup {a}, !.data[a] = item,
            !.next[a] = NULL, !.previous[a] = NULL]

\* insert without the assignment head->previous = insertPtr
ListInsertNoBackLink(l, a, item) ==
  LET l1 == getNode([l EXCEPT !.size = @ + 1], a, item)
  IN IF l1.head = NULL
     THEN [l1 EXCEPT !.head = a, !.next[a] = a, !.previous[a] = a]
     ELSE LET l2 == [l1 EXCEPT !.next[a] = l1.head]
              l3 == [l2 EXCEPT !.previous[a] = l2.previous[l2.head]]
              l4 == [l3 EXCEPT !.next[l3.previous[l3.head]] = a]
          IN [l4 EXCEPT !.head = a]

\* insert(item), where a is the address new returns.
ListInsert(l, a, item) ==
  LET l1 == getNode([l EXCEPT !.size = @ + 1], a, item)
  IN IF l1.head = NULL
     THEN [l1 EXCEPT !.head = a, !.next[a] = a, !.previous[a] = a]
     ELSE LET l2 == [l1 EXCEPT !.next[a] = l1.head]
              l3 == [l2 EXCEPT !.previous[a] = l2.previous[l2.head]]
              l4 == [l3 EXCEPT !.next[l3.previous[l3.head]] = a]
              l5 == [l4 EXCEPT !.previous[l4.head] = a]
          IN [l5 EXCEPT !.head = a]

\* delete currentPtr
DeleteNode(l, a) ==
  [l EXCEPT !.heap = @ \ {a}, !.data[a] = "",
            !.next[a] = NULL, !.previous[a] = NULL]

\* removeHead with head = currentPtr->previous instead of currentPtr->next
ListRemoveHeadBackwards(l) ==
  IF l.size = 0 \/ l.head = NULL
  THEN [list |-> l, ret |-> FALSE]
  ELSE LET currentPtr == l.head
           l1 == IF l.next[l.head] = l.head
                 THEN [l EXCEPT !.size = 0, !.head = NULL]
                 ELSE LET m1 == [l EXCEPT !.size = @ - 1]
                          m2 == [m1 EXCEPT !.head = m1.previous[currentPtr]]
                          m3 == [m2 EXCEPT !.previous[m2.head] = m2.previous[currentPtr]]
                      IN [m3 EXCEPT !.next[m3.previous[currentPtr]] = m3.head]
       IN [list |-> DeleteNode(l1, currentPtr), ret |-> TRUE]

\* removeHead(): the list it leaves and the value it returns.
ListRemoveHead(l) ==
  IF l.size = 0 \/ l.head = NULL
  THEN [list |-> l, ret |-> FALSE]
  ELSE LET currentPtr == l.head
           l1 == IF l.next[l.head] = l.head
                 THEN [l EXCEPT !.size = 0, !.head = NULL]
                 ELSE LET m1 == [l EXCEPT !.size = @ - 1]
                          m2 == [m1 EXCEPT !.head = m1.next[currentPtr]]
                          m3 == [m2 EXCEPT !.previous[m2.head] = m2.previous[currentPtr]]
                      IN [m3 EXCEPT !.next[m3.previous[currentPtr]] = m3.head]
       IN [list |-> DeleteNode(l1, currentPtr), ret |-> TRUE]

\* operator++
ListIncr(l) == IF l.head # NULL THEN [l EXCEPT !.head = l.next[l.head]] ELSE l

\* getSize()
ListGetSize(l) == l.size

\* History only: the numbers of insert calls, of removeHead calls that
\* returned true and of removeHead calls that returned false, the last two
\* member functions called, the value the last one returned, and the list
\* before each of them.
NoCalls ==
  [inserts |-> 0, removed |-> 0, refused |-> 0, n |-> 0, op |-> "", ret |-> "",
   before |-> EmptyList, prevOp |-> "", before2 |-> EmptyList]

Called(op, ret) ==
  [calls EXCEPT !.n = @ + 1, !.op = op, !.ret = ret, !.before = ring,
                !.prevOp = calls.op, !.before2 = calls.before,
                !.inserts = IF op = "insert" THEN @ + 1 ELSE @,
                !.removed = IF op = "removeHead" /\ ret = TRUE THEN @ + 1 ELSE @,
                !.refused = IF op = "removeHead" /\ ret = FALSE THEN @ + 1 ELSE @]

(***************************************************************************)
(* Normalize: scale a vector to length VECTOR_SIZE, leave a zero vector.   *)
(***************************************************************************)
Normalize(v) ==
  LET size10 == ISqrt(100 * (v[1] * v[1] + v[2] * v[2]))
  IN IF size10 > 0
     THEN <<RoundDiv(v[1] * VECTOR_SIZE * 10, size10),
            RoundDiv(v[2] * VECTOR_SIZE * 10, size10)>>
     ELSE v

(***************************************************************************)
(* Inputs of the model: the draws InitShips can make for one ship, and the *)
(* events the user can send.                                               *)
(***************************************************************************)
ShipDraws ==
  { [pos |-> <<5050, 0>>, delta |-> Normalize(<<1, 0>>), clr |-> ColorOf[2],
     xInc |-> 150, yInc |-> 200],
    [pos |-> <<-5050, -5040>>, delta |-> Normalize(<<-1, 1>>), clr |-> ColorOf[6],
     xInc |-> -200, yInc |-> 150] }

ClickPixels == { <<600, 400>>, <<200, 600>> }
LifePixels == { <<600, 400>> }
LifeDraws == { d \in ShipDraws : d.clr = ColorOf[2] }
MouseStates == { "DOWN", "UP" }
Keys == { "r", "n", "k", "K", "a", "A", "s", "S" }
WindowSizes == { <<800, 800>>, <<800, 400>> }

NoEvent == [op |-> "init", key |-> "", state |-> "", x |-> 0, y |-> 0]
TickEvent == [op |-> "tick", key |-> "", state |-> "", x |-> 0, y |-> 0]
KeyEvent(k) == [op |-> "key", key |-> k, state |-> "", x |-> 0, y |-> 0]
ClickEvent(st, mx, my) == [op |-> "click", key |-> "", state |-> st, x |-> mx, y |-> my]
ResizeEvent(w, h) == [op |-> "resize", key |-> "", state |-> "", x |-> w, y |-> h]
DisplayEvent == [op |-> "display", key |-> "", state |-> "", x |-> 0, y |-> 0]
PassEvent(name) == [op |-> "pass", key |-> name, state |-> "", x |-> 0, y |-> 0]

EmptyLog ==
  [ships0 |-> <<>>, adj |-> <<>>, grown |-> <<>>, disp |-> <<>>, coh |-> <<>>,
   ali |-> <<>>, cohDivs |-> <<>>, aliDivs |-> <<>>, reads |-> <<>>]

(***************************************************************************)
(* InitShips: NBR_SHIPS ships, each inserted at the head of shipList.      *)
(***************************************************************************)
MakeShip(i, d) ==
  [id |-> i, pos |-> d.pos, delta |-> d.delta, clr |-> d.clr,
   xInc |-> d.xInc, yInc |-> d.yInc]

RECURSIVE InitShips(_, _)
InitShips(draw, i) ==
  IF i = 0 THEN <<>> ELSE insert(InitShips(draw, i - 1), MakeShip(i, draw[i]))

InitFrom(draws) ==
  /\ \E draw \in [1..NBR_SHIPS -> draws] : shipList = InitShips(draw, NBR_SHIPS)
  /\ circleList = <<>>
  /\ currColor = none
  /\ G_CohesionMultiplier = 0
  /\ G_AllignmentMultiplier = 0
  /\ G_SeperationMultiplier = 0
  /\ currWindowSize = <<800, 800>>
  /\ windowWidth = 2 * Unit
  /\ windowHeight = 2 * Unit
  /\ lastEvent = NoEvent
  /\ log = EmptyLog
  /\ nextId = 1
  /\ used = [events |-> 0, ticks |-> 0]
  /\ ring = EmptyList
  /\ calls = NoCalls

Init == InitFrom(ShipDraws)

(***************************************************************************)
(* Display: draws every ripple and every ship, rotating each list once     *)
(* round.                                                                  *)
(***************************************************************************)
RECURSIVE DrawLoop(_, _, _, _)
DrawLoop(of, list, i, reads) ==
  IF Aborted(reads) \/ ~(i <= getSize(list))
  THEN [list |-> list, reads |-> reads]
  ELSE LET rd == Append(reads, HeadRead("Display", of, list))
       IN IF list = <<>>
          THEN [list |-> list, reads |-> rd]
          ELSE DrawLoop(of, Incr(list), i + 1, rd)

DisplayOneShort(ships, circles) ==
  LET c == DrawLoop("circleList", circles, 2, <<>>)
      s == DrawLoop("shipList", ships, 2, c.reads)
  IN [ships |-> s.list, circles |-> c.list, reads |-> s.reads]

Display(ships, circles) ==
  LET c == DrawLoop("circleList", circles, 1, <<>>)
      s == DrawLoop("shipList", ships, 1, c.reads)
  IN [ships |-> s.list, circles |-> c.list, reads |-> s.reads]

(***************************************************************************)
(* MouseClick.                                                             *)
(***************************************************************************)
ClickX(mx) == TruncDiv(windowWidth * mx, currWindowSize[1]) - windowWidth \div 2
ClickY(my) == windowHeight \div 2 - TruncDiv(windowHeight * my, currWindowSize[2])

NewRipple(mx, my) ==
  [id |-> nextId, age |-> 0,
   pos |-> <<ClickX(mx), ClickY(my)>>, rad |-> INITIAL_RADIUS, clr |-> currColor]

ClickInsertsAlways(mouseState) == TRUE

ClickInserts(mouseState) == mouseState = "DOWN"

MouseClick(mouseState, mx, my) ==
  LET inserted == IF ClickInserts(mouseState)
                  THEN insert(circleList, NewRipple(mx, my))
                  ELSE circleList
      drawn == Display(shipList, inserted)
  IN /\ circleList' = drawn.circles
     /\ shipList' = drawn.ships
     /\ nextId' = IF ClickInserts(mouseState) THEN nextId + 1 ELSE nextId
     /\ log' = [log EXCEPT !.reads = drawn.reads]
     /\ lastEvent' = ClickEvent(mouseState, mx, my)
     /\ UNCHANGED <<currColor, G_CohesionMultiplier, G_AllignmentMultiplier,
                    G_SeperationMultiplier, currWindowSize, windowWidth,
                    windowHeight, ring, calls>>

(***************************************************************************)
(* The display callback, run by glut for a redisplay.                      *)
(***************************************************************************)
Redisplay ==
  LET drawn == Display(shipList, circleList)
  IN /\ circleList' = drawn.circles
     /\ shipList' = drawn.ships
     /\ log' = [log EXCEPT !.reads = drawn.reads]
     /\ lastEvent' = DisplayEvent
     /\ UNCHANGED <<currColor, G_CohesionMultiplier, G_AllignmentMultiplier,
                    G_SeperationMultiplier, currWindowSize, windowWidth,
                    windowHeight, nextId, ring, calls>>

(***************************************************************************)
(* KeyboardPress.                                                          *)
(***************************************************************************)
KeyColor(key) ==
  CASE key \in {"w", "W"} -> ColorOf[1]
    [] key \in {"r", "R"} -> ColorOf[2]
    [] key \in {"y", "Y"} -> ColorOf[3]
    [] key \in {"g", "G"} -> ColorOf[4]
    [] key \in {"c", "C"} -> ColorOf[5]
    [] key \in {"b", "B"} -> ColorOf[6]
    [] key \in {"m", "M"} -> ColorOf[7]
    [] key \in {"n", "N"} -> ColorOf[8]
    [] OTHER -> currColor

DecrementNoFloor(m) == m - 1

Decrement(m) == IF m > 0 THEN m - 1 ELSE 0

Increment(m) == m + 1

KeyboardPress(key) ==
  /\ currColor' = KeyColor(key)
  /\ G_CohesionMultiplier' =
       IF key = "k" THEN Decrement(G_CohesionMultiplier)
       ELSE IF key = "K" THEN Increment(G_CohesionMultiplier)
       ELSE G_CohesionMultiplier
  /\ G_AllignmentMultiplier' =
       IF key = "a" THEN Decrement(G_AllignmentMultiplier)
       ELSE IF key = "A" THEN Increment(G_AllignmentMultiplier)
       ELSE G_AllignmentMultiplier
  /\ G_SeperationMultiplier' =
       IF key = "s" THEN Decrement(G_SeperationMultiplier)
       ELSE IF key = "S" THEN Increment(G_SeperationMultiplier)
       ELSE G_SeperationMultiplier
  /\ lastEvent' = KeyEvent(key)
  /\ UNCHANGED <<shipList, circleList, currWindowSize, windowWidth,
                 windowHeight, log, nextId, ring, calls>>

(***************************************************************************)
(* ResizeWindow.                                                           *)
(***************************************************************************)
ResizeWindow(w, h) ==
  /\ currWindowSize' = <<w, h>>
  /\ IF w <= h
     THEN /\ windowWidth' = 2 * Unit
          /\ windowHeight' = TruncDiv(2 * Unit * h, w)
     ELSE /\ windowWidth' = TruncDiv(2 * Unit * w, h)
          /\ windowHeight' = 2 * Unit
  /\ lastEvent' = ResizeEvent(w, h)
  /\ UNCHANGED <<shipList, circleList, currColor, G_CohesionMultiplier,
                 G_AllignmentMultiplier, G_SeperationMultiplier, log, nextId, ring, calls>>

(***************************************************************************)
(* AdjustToWindow, applied to the copy currentShp; n is shipList.getSize() *)
(* which bounds the loop that sets the four flags.                         *)
(***************************************************************************)
TooRight(shp, n) == n > 0 /\ FGt(FMulInt(shp.pos[1], SHIP_RADIUS), (windowWidth * Unit) \div 2)
TooLeft(shp, n) == n > 0 /\ FLt(FMulInt(shp.pos[1], SHIP_RADIUS), -((windowWidth * Unit) \div 2))
TooHigh(shp, n) == n > 0 /\ FGt(FMulInt(shp.pos[2], SHIP_RADIUS), (windowHeight * Unit) \div 2)
TooLow(shp, n) == n > 0 /\ FLt(FMulInt(shp.pos[2], SHIP_RADIUS), -((windowHeight * Unit) \div 2))

AdjustNoFlip(shp, n) ==
  LET s1 == IF TooRight(shp, n)
            THEN [shp EXCEPT !.pos[1] = windowWidth \div 2 - SHIP_RADIUS]
            ELSE IF TooLeft(shp, n)
            THEN [shp EXCEPT !.pos[1] = windowWidth \div 2 + SHIP_RADIUS]
            ELSE shp
  IN IF TooHigh(shp, n)
     THEN [s1 EXCEPT !.pos[2] = windowWidth \div 2 - SHIP_RADIUS]
     ELSE IF TooLow(shp, n)
     THEN [s1 EXCEPT !.pos[2] = windowWidth \div 2 + SHIP_RADIUS]
     ELSE s1

AdjustToWindow(shp, n) ==
  LET s1 == IF TooRight(shp, n)
            THEN [shp EXCEPT !.xInc = -@, !.pos[1] = windowWidth \div 2 - SHIP_RADIUS]
            ELSE IF TooLeft(shp, n)
            THEN [shp EXCEPT !.xInc = -@, !.pos[1] = windowWidth \div 2 + SHIP_RADIUS]
            ELSE shp
  IN IF TooHigh(shp, n)
     THEN [s1 EXCEPT !.yInc = -@, !.pos[2] = windowWidth \div 2 - SHIP_RADIUS]
     ELSE IF TooLow(shp, n)
     THEN [s1 EXCEPT !.yInc = -@, !.pos[2] = windowWidth \div 2 + SHIP_RADIUS]
     ELSE s1

(***************************************************************************)
(* TimerFunction, first loop: each ship is copied into currShp, the copy   *)
(* is advanced and adjusted, and the list is rotated; the copy is never    *)
(* stored back.  adj records the copy before and after AdjustToWindow.     *)
(***************************************************************************)
AdvanceCopy(shp) ==
  [shp EXCEPT !.pos = <<FAdd(shp.pos[1], shp.xInc), FAdd(shp.pos[2], shp.yInc)>>]

RECURSIVE AdvanceLoop(_, _, _, _)
AdvanceLoop(list, i, adj, reads) ==
  IF Aborted(reads) \/ ~(i <= getSize(list))
  THEN [list |-> list, adj |-> adj, reads |-> reads]
  ELSE LET rd == Append(reads, HeadRead("TimerFunction", "shipList", list))
       IN IF list = <<>>
          THEN [list |-> list, adj |-> adj, reads |-> rd]
          ELSE LET currShp == AdvanceCopy(getHeadValue(list))
                   adjusted == AdjustToWindow(currShp, getSize(list))
               IN AdvanceLoop(Incr(list), i + 1,
                              Append(adj, [in |-> currShp, out |-> adjusted]), rd)

(***************************************************************************)
(* TimerFunction, second loop: the head ripple is removed, grown, put back *)
(* at the head if it is still below FINAL_RADIUS, and the list is rotated. *)
(* The bound getSize() is read again at every iteration.                   *)
(***************************************************************************)
GrowRecoloured(cir) ==
  [cir EXCEPT !.rad = FAdd32(cir.rad, RADIUS_INCREMENT), !.clr = currColor]

Grow(cir) == [cir EXCEPT !.rad = FAdd32(cir.rad, RADIUS_INCREMENT)]

StillLiveOneMore(cir) == cir.rad < FINAL_RADIUS + RADIUS_INCREMENT

StillLive(cir) == cir.rad < FINAL_RADIUS

RECURSIVE RippleLoop(_, _, _)
RippleLoop(list, i, reads) ==
  IF Aborted(reads) \/ ~(i <= getSize(list))
  THEN [list |-> list, reads |-> reads]
  ELSE LET rd == Append(reads, HeadRead("TimerFunction", "circleList", list))
       IN IF list = <<>>
          THEN [list |-> list, reads |-> rd]
          ELSE LET currCircle == Grow(getHeadValue(list))
                   removed == removeHead(list)
                   kept == IF StillLive(currCircle)
                           THEN insert(removed, currCircle) ELSE removed
               IN RippleLoop(Incr(kept), i + 1, rd)

\* History only: one more tick has passed for every ripple still stored.
AgeAll(list) == [k \in 1..Len(list) |-> [list[k] EXCEPT !.age = @ + 1]]

(***************************************************************************)
(* The containment test shared by the four passes:                         *)
(*   pow(cx - sx, 2) + pow(cy - sy, 2) < pow(rad, 2)                       *)
(* It is false for a ship whose position is Inf or NaN.                    *)
(***************************************************************************)
ContainsClosed(cir, shp) ==
  /\ IsFinite(shp.pos[1]) /\ IsFinite(shp.pos[2])
  /\ LET dx == cir.pos[1] - shp.pos[1]
         dy == cir.pos[2] - shp.pos[2]
         r == RadiusUnits(cir.rad)
     IN /\ Abs(dx) <= r
        /\ Abs(dy) <= r
        /\ dx * dx + dy * dy <= r * r

ContainsAlways(cir, shp) == TRUE

Contains(cir, shp) ==
  /\ IsFinite(shp.pos[1]) /\ IsFinite(shp.pos[2])
  /\ LET dx == cir.pos[1] - shp.pos[1]
         dy == cir.pos[2] - shp.pos[2]
         r == RadiusUnits(cir.rad)
     IN /\ Abs(dx) <= r
        /\ Abs(dy) <= r
        /\ dx * dx + dy * dy < r * r

(***************************************************************************)
(* DisplaceShips.                                                          *)
(***************************************************************************)
ColorMatchAny(cir, shp) == TRUE

ColorMatch(cir, shp) == cir.clr = none \/ cir.clr = shp.clr

\* intensity + d instead of intensity * d
PushAdded(d, rad) ==
  d + TruncDiv((RadiusUnits(FINAL_RADIUS) - RadiusUnits(rad)) * 5 * Unit,
               (RadiusUnits(FINAL_RADIUS) - RadiusUnits(INITIAL_RADIUS)) * 100)

\* intensity * d, with intensity = 0.05 * (FINAL - rad) / (FINAL - INITIAL)
Push(d, rad) ==
  TruncDiv(d * (RadiusUnits(FINAL_RADIUS) - RadiusUnits(rad)) * 5,
           (RadiusUnits(FINAL_RADIUS) - RadiusUnits(INITIAL_RADIUS)) * 100)

Displace(shp, cir) ==
  LET px == Push(shp.pos[1] - cir.pos[1], cir.rad)
      py == Push(shp.pos[2] - cir.pos[2], cir.rad)
  IN [shp EXCEPT !.delta = <<shp.delta[1] + px, shp.delta[2] + py>>,
                 !.pos = <<shp.pos[1] + px, shp.pos[2] + py>>]

RECURSIVE DisplaceRipples(_, _, _, _)
DisplaceRipples(shp, circles, j, reads) ==
  IF Aborted(reads) \/ ~(j <= getSize(circles))
  THEN [shp |-> shp, circles |-> circles, reads |-> reads]
  ELSE LET rd == Append(reads, HeadRead("DisplaceShips", "circleList", circles))
       IN IF circles = <<>>
          THEN [shp |-> shp, circles |-> circles, reads |-> rd]
          ELSE LET cir == getHeadValue(circles)
                   shp2 == IF ColorMatch(cir, shp) /\ Contains(cir, shp)
                           THEN Displace(shp, cir) ELSE shp
               IN DisplaceRipples(shp2, Incr(circles), j + 1, rd)

PutBackLost(list, shp) == Incr(list)

\* The end of every pass: normalize delta, reinsert the ship, rotate.
PutBack(list, shp) == Incr(insert(list, [shp EXCEPT !.delta = Normalize(@)]))

RECURSIVE DisplaceShips(_, _, _, _)
DisplaceShips(ships, circles, i, reads) ==
  IF Aborted(reads) \/ ~(i <= getSize(ships))
  THEN [ships |-> ships, circles |-> circles, reads |-> reads]
  ELSE LET rd == Append(reads, HeadRead("DisplaceShips", "shipList", ships))
       IN IF ships = <<>>
          THEN [ships |-> ships, circles |-> circles, reads |-> rd]
          ELSE LET r == DisplaceRipples(getHeadValue(ships), circles, 1, rd)
               IN DisplaceShips(PutBack(removeHead(ships), r.shp), r.circles,
                                i + 1, r.reads)

(***************************************************************************)
(* CohesionShips.  acc holds the locals sumX, sumY and tally, which are    *)
(* set to 0 once per call and run on across ships and ripples.             *)
(***************************************************************************)
Cohere(shp, acc) ==
  [shp EXCEPT !.pos = <<FMulInt(FDivInt(acc.sumX, acc.tally), G_CohesionMultiplier),
                        FMulInt(FDivInt(acc.sumY, acc.tally), G_CohesionMultiplier)>>]

RECURSIVE CohesionRipples(_, _, _, _, _)
CohesionRipples(shp, circles, acc, j, reads) ==
  IF Aborted(reads) \/ ~(j <= getSize(circles))
  THEN [shp |-> shp, circles |-> circles, acc |-> acc, reads |-> reads]
  ELSE LET rd == Append(reads, HeadRead("CohesionShips", "circleList", circles))
       IN IF circles = <<>>
          THEN [shp |-> shp, circles |-> circles, acc |-> acc, reads |-> rd]
          ELSE LET cir == getHeadValue(circles)
                   hit == Contains(cir, shp)
                   acc1 == IF hit
                           THEN [acc EXCEPT !.sumX = @ + shp.pos[1],
                                            !.sumY = @ + shp.pos[2],
                                            !.divs = Append(@, acc.tally)]
                           ELSE acc
                   shp2 == IF hit THEN Cohere(shp, acc1) ELSE shp
               IN CohesionRipples(shp2, Incr(circles),
                     [acc1 EXCEPT !.tally = @ + 1], j + 1, rd)

RECURSIVE CohesionShips(_, _, _, _, _)
CohesionShips(ships, circles, acc, i, reads) ==
  IF Aborted(reads) \/ ~(i <= getSize(ships))
  THEN [ships |-> ships, circles |-> circles, acc |-> acc, reads |-> reads]
  ELSE LET rd == Append(reads, HeadRead("CohesionShips", "shipList", ships))
       IN IF ships = <<>>
          THEN [ships |-> ships, circles |-> circles, acc |-> acc, reads |-> rd]
          ELSE LET r == CohesionRipples(getHeadValue(ships), circles, acc, 1, rd)
               IN CohesionShips(PutBack(removeHead(ships), r.shp), r.circles,
                     r.acc, i + 1, r.reads)

(***************************************************************************)
(* AllignmentShips: the same loop over sumDeltaX, sumDeltaY and tally.     *)
(***************************************************************************)
Allign(shp, acc) ==
  [shp EXCEPT !.pos = <<FMulInt(FDivInt(acc.sumX, acc.tally), G_AllignmentMultiplier),
                        FMulInt(FDivInt(acc.sumY, acc.tally), G_AllignmentMultiplier)>>]

RECURSIVE AllignmentRipples(_, _, _, _, _)
AllignmentRipples(shp, circles, acc, j, reads) ==
  IF Aborted(reads) \/ ~(j <= getSize(circles))
  THEN [shp |-> shp, circles |-> circles, acc |-> acc, reads |-> reads]
  ELSE LET rd == Append(reads, HeadRead("AllignmentShips", "circleList", circles))
       IN IF circles = <<>>
          THEN [shp |-> shp, circles |-> circles, acc |-> acc, reads |-> rd]
          ELSE LET cir == getHeadValue(circles)
                   hit == Contains(cir, shp)
                   acc1 == IF hit
                           THEN [acc EXCEPT !.sumX = @ + shp.delta[1],
                                            !.sumY = @ + shp.delta[2],
                                            !.divs = Append(@, acc.tally)]
                           ELSE acc
                   shp2 == IF hit THEN Allign(shp, acc1) ELSE shp
               IN AllignmentRipples(shp2, Incr(circles),
                     [acc1 EXCEPT !.tally = @ + 1], j + 1, rd)

RECURSIVE AllignmentShips(_, _, _, _, _)
AllignmentShips(ships, circles, acc, i, reads) ==
  IF Aborted(reads) \/ ~(i <= getSize(ships))
  THEN [ships |-> ships, circles |-> circles, acc |-> acc, reads |-> reads]
  ELSE LET rd == Append(reads, HeadRead("AllignmentShips", "shipList", ships))
       IN IF ships = <<>>
          THEN [ships |-> ships, circles |-> circles, acc |-> acc, reads |-> rd]
          ELSE LET r == AllignmentRipples(getHeadValue(ships), circles, acc, 1, rd)
               IN AllignmentShips(PutBack(removeHead(ships), r.shp), r.circles,
                     r.acc, i + 1, r.reads)

(***************************************************************************)
(* SeperationShips.                                                        *)
(***************************************************************************)
SeperationCouplesLikeColoured(cir, shp) == ColorMatch(cir, shp) /\ Contains(cir, shp)

\* The coupling test of the separation pass.
SeperationCouples(cir, shp) == Contains(cir, shp)

Seperate(shp) ==
  [shp EXCEPT !.pos = <<FMulInt(shp.pos[1], G_SeperationMultiplier),
                        FMulInt(shp.pos[2], G_SeperationMultiplier)>>]

RECURSIVE SeperationRipples(_, _, _, _)
SeperationRipples(shp, circles, j, reads) ==
  IF Aborted(reads) \/ ~(j <= getSize(circles))
  THEN [shp |-> shp, circles |-> circles, reads |-> reads]
  ELSE LET rd == Append(reads, HeadRead("SeperationShips", "circleList", circles))
       IN IF circles = <<>>
          THEN [shp |-> shp, circles |-> circles, reads |-> rd]
          ELSE LET cir == getHeadValue(circles)
                   shp2 == IF SeperationCouples(cir, shp) THEN Seperate(shp) ELSE shp
               IN SeperationRipples(shp2, Incr(circles), j + 1, rd)

RECURSIVE SeperationShips(_, _, _, _)
SeperationShips(ships, circles, i, reads) ==
  IF Aborted(reads) \/ ~(i <= getSize(ships))
  THEN [ships |-> ships, circles |-> circles, reads |-> reads]
  ELSE LET rd == Append(reads, HeadRead("SeperationShips", "shipList", ships))
       IN IF ships = <<>>
          THEN [ships |-> ships, circles |-> circles, reads |-> rd]
          ELSE LET r == SeperationRipples(getHeadValue(ships), circles, 1, rd)
               IN SeperationShips(PutBack(removeHead(ships), r.shp), r.circles,
                                  i + 1, r.reads)

(***************************************************************************)
(* TimerFunction: the ship loop, the ripple loop, then the four passes.    *)
(***************************************************************************)
\* The locals of a cohesion or alignment pass at its start; divs is history
\* only: the value of tally at each evaluation of sum / tally.
ZeroAcc == [sumX |-> 0, sumY |-> 0, tally |-> 0, divs |-> <<>>]

TimerFunctionUnchained ==
  \E adv \in {AdvanceLoop(shipList, 1, <<>>, <<>>)} :
  \E grown \in {RippleLoop(circleList, 1, adv.reads)} :
  \E disp \in {DisplaceShips(adv.list, grown.list, 1, grown.reads)} :
  \E coh \in {CohesionShips(adv.list, disp.circles, ZeroAcc, 1, disp.reads)} :
  \E ali \in {AllignmentShips(coh.ships, coh.circles, ZeroAcc, 1, coh.reads)} :
  \E sep \in {SeperationShips(ali.ships, ali.circles, 1, ali.reads)} :
     /\ shipList' = sep.ships
     /\ circleList' = AgeAll(sep.circles)
     /\ log' = [ships0 |-> shipList, adj |-> adv.adj, grown |-> grown.list,
                disp |-> disp.ships, coh |-> coh.ships, ali |-> ali.ships,
                cohDivs |-> coh.acc.divs, aliDivs |-> ali.acc.divs,
                reads |-> sep.reads]
     /\ lastEvent' = TickEvent
     /\ UNCHANGED <<currColor, G_CohesionMultiplier, G_AllignmentMultiplier,
                    G_SeperationMultiplier, currWindowSize, windowWidth,
                    windowHeight, nextId, ring, calls>>

\* Each step works on the lists that the step before it left.
TimerFunction ==
  \E adv \in {AdvanceLoop(shipList, 1, <<>>, <<>>)} :
  \E grown \in {RippleLoop(circleList, 1, adv.reads)} :
  \E disp \in {DisplaceShips(adv.list, grown.list, 1, grown.reads)} :
  \E coh \in {CohesionShips(disp.ships, disp.circles, ZeroAcc, 1, disp.reads)} :
  \E ali \in {AllignmentShips(coh.ships, coh.circles, ZeroAcc, 1, coh.reads)} :
  \E sep \in {SeperationShips(ali.ships, ali.circles, 1, ali.reads)} :
     /\ shipList' = sep.ships
     /\ circleList' = AgeAll(sep.circles)
     /\ log' = [ships0 |-> shipList, adj |-> adv.adj, grown |-> grown.list,
                disp |-> disp.ships, coh |-> coh.ships, ali |-> ali.ships,
                cohDivs |-> coh.acc.divs, aliDivs |-> ali.acc.divs,
                reads |-> sep.reads]
     /\ lastEvent' = TickEvent
     /\ UNCHANGED <<currColor, G_CohesionMultiplier, G_AllignmentMultiplier,
                    G_SeperationMultiplier, currWindowSize, windowWidth,
                    windowHeight, nextId, ring, calls>>

(***************************************************************************)
(* Spec: every callback, with at most MaxEvents input events and MaxTicks  *)
(* timer ticks; a multiplier is not raised above MaxMult.                  *)
(***************************************************************************)
KeyAllowed(key) ==
  /\ key = "K" => G_CohesionMultiplier < MaxMult
  /\ key = "A" => G_AllignmentMultiplier < MaxMult
  /\ key = "S" => G_SeperationMultiplier < MaxMult

\* No callback runs in a process that a failed assert has ended.
Running == ~Aborted(log.reads)

UserClick ==
  /\ Running
  /\ used.events < MaxEvents
  /\ \E st \in MouseStates, px \in ClickPixels : MouseClick(st, px[1], px[2])
  /\ used' = [used EXCEPT !.events = @ + 1]

UserKey ==
  /\ Running
  /\ used.events < MaxEvents
  /\ \E key \in Keys : KeyAllowed(key) /\ KeyboardPress(key)
  /\ used' = [used EXCEPT !.events = @ + 1]

UserResize ==
  /\ Running
  /\ used.events < MaxEvents
  /\ \E sz \in WindowSizes : ResizeWindow(sz[1], sz[2])
  /\ used' = [used EXCEPT !.events = @ + 1]

Tick ==
  /\ Running
  /\ used.ticks < MaxTicks
  /\ TimerFunction
  /\ used' = [used EXCEPT !.ticks = @ + 1]

Render ==
  /\ Running
  /\ used.events < MaxEvents
  /\ Redisplay
  /\ used' = [used EXCEPT !.events = @ + 1]

Next == UserClick \/ UserKey \/ UserResize \/ Tick \/ Render

Spec == Init /\ [][Next]_vars

(***************************************************************************)
(* SpecLife: the whole life of ripples.  At most LifeClicks ripples are    *)
(* created; the timer ticks and the window is redisplayed without bound.   *)
(* The ships are all drawn next to the place of the clicks.                *)
(***************************************************************************)
InitLife == InitFrom(LifeDraws)

LifeClick ==
  /\ Running
  /\ nextId <= LifeClicks
  /\ \E px \in LifePixels : MouseClick("DOWN", px[1], px[2])
  /\ UNCHANGED used

LifeTick == Running /\ TimerFunction /\ UNCHANGED used

LifeRender == Running /\ Redisplay /\ UNCHANGED used

NextLife == LifeClick \/ LifeTick \/ LifeRender

SpecLife == InitLife /\ [][NextLife]_vars

(***************************************************************************)
(* SpecPass: one force pass, called once on a ship list of 0..NBR_SHIPS    *)
(* ships and a ripple list of 0..MaxRipples ripples, with any multipliers  *)
(* up to MaxMult.  The ripples are two around the origin, grown once and   *)
(* twice, and a new one, of radius INITIAL_RADIUS, at distance 0.01 of the *)
(* origin; the ships lie at the origin, at the centre of the new ripple,   *)
(* and inside the smaller grown ripple.                                    *)
(***************************************************************************)
PassDraws ==
  { [pos |-> <<0, 0>>, delta |-> Normalize(<<1, 0>>), clr |-> ColorOf[4],
     xInc |-> 150, yInc |-> 200],
    [pos |-> <<100, 0>>, delta |-> Normalize(<<-1, 1>>), clr |-> ColorOf[2],
     xInc |-> -200, yInc |-> 150],
    [pos |-> <<30, -40>>, delta |-> Normalize(<<0, -1>>), clr |-> ColorOf[6],
     xInc |-> 150, yInc |-> -200] }

PassRipples ==
  { [pos |-> <<100, 0>>, rad |-> INITIAL_RADIUS, clr |-> none],
    [pos |-> <<0, 0>>, rad |-> FAdd32(INITIAL_RADIUS, RADIUS_INCREMENT),
     clr |-> ColorOf[4]],
    [pos |-> <<0, 0>>,
     rad |-> FAdd32(FAdd32(INITIAL_RADIUS, RADIUS_INCREMENT), RADIUS_INCREMENT),
     clr |-> none] }

MakeRipple(i, d) == [id |-> i, age |-> 0, pos |-> d.pos, rad |-> d.rad, clr |-> d.clr]

RECURSIVE InitRipples(_, _)
InitRipples(draw, i) ==
  IF i = 0 THEN <<>> ELSE insert(InitRipples(draw, i - 1), MakeRipple(i, draw[i]))

InitPass ==
  /\ \E n \in 0..NBR_SHIPS : \E draw \in [1..n -> PassDraws] :
        shipList = InitShips(draw, n)
  /\ \E m \in 0..MaxRipples : \E draw \in [1..m -> PassRipples] :
        /\ circleList = InitRipples(draw, m)
        /\ nextId = m + 1
  /\ currColor = none
  /\ G_CohesionMultiplier \in 0..MaxMult
  /\ G_AllignmentMultiplier \in 0..MaxMult
  /\ G_SeperationMultiplier \in 0..MaxMult
  /\ currWindowSize = <<800, 800>>
  /\ windowWidth = 2 * Unit
  /\ windowHeight = 2 * Unit
  /\ lastEvent = NoEvent
  /\ log = EmptyLog
  /\ used = [events |-> 0, ticks |-> 0]
  /\ ring = EmptyList
  /\ calls = NoCalls

\* The state a pass leaves; ships0 and grown record the lists it was given.
PassEffect(name, r, divs) ==
  /\ shipList' = r.ships
  /\ circleList' = r.circles
  /\ log' = [EmptyLog EXCEPT !.ships0 = shipList, !.grown = circleList,
                             !.cohDivs = divs, !.reads = r.reads]
  /\ lastEvent' = PassEvent(name)
  /\ UNCHANGED <<currColor, G_CohesionMultiplier, G_AllignmentMultiplier,
                 G_SeperationMultiplier, currWindowSize, windowWidth,
                 windowHeight, nextId, used, ring, calls>>

PassDisplace ==
  /\ lastEvent = NoEvent
  /\ PassEffect("DisplaceShips", DisplaceShips(shipList, circleList, 1, <<>>), <<>>)

PassCohesion ==
  /\ lastEvent = NoEvent
  /\ LET r == CohesionShips(shipList, circleList, ZeroAcc, 1, <<>>)
     IN PassEffect("CohesionShips", r, r.acc.divs)

PassAllignment ==
  /\ lastEvent = NoEvent
  /\ LET r == AllignmentShips(shipList, circleList, ZeroAcc, 1, <<>>)
     IN PassEffect("AllignmentShips", r, r.acc.divs)

PassSeperation ==
  /\ lastEvent = NoEvent
  /\ PassEffect("SeperationShips", SeperationShips(shipList, circleList, 1, <<>>), <<>>)

NextPass == PassDisplace \/ PassCohesion \/ PassAllignment \/ PassSeperation

SpecPass == InitPass /\ [][NextPass]_vars

(***************************************************************************)
(* SpecList: one LinkedList object, constructed empty, on which insert,    *)
(* removeHead and operator++ are called in any order, at most MaxCalls     *)
(* times, new returning any free address of Nodes.  No callback runs.      *)
(***************************************************************************)
InitList ==
  /\ ring = EmptyList
  /\ calls = NoCalls
  /\ shipList = <<>>
  /\ circleList = <<>>
  /\ currColor = none
  /\ G_CohesionMultiplier = 0
  /\ G_AllignmentMultiplier = 0
  /\ G_SeperationMultiplier = 0
  /\ currWindowSize = <<800, 800>>
  /\ windowWidth = 2 * Unit
  /\ windowHeight = 2 * Unit
  /\ lastEvent = NoEvent
  /\ log = EmptyLog
  /\ nextId = 1
  /\ used = [events |-> 0, ticks |-> 0]

Program ==
  <<shipList, circleList, currColor, G_CohesionMultiplier,
    G_AllignmentMultiplier, G_SeperationMultiplier, currWindowSize,
    windowWidth, windowHeight, lastEvent, log, nextId, used>>

CallInsert ==
  /\ calls.n < MaxCalls
  /\ \E a \in Nodes \ ring.heap : \E item \in Items :
        /\ ring' = ListInsert(ring, a, item)
        /\ calls' = Called("insert", "")
  /\ UNCHANGED Program

CallRemoveHead ==
  /\ calls.n < MaxCalls
  /\ \E r \in {ListRemoveHead(ring)} :
        /\ ring' = r.list
        /\ calls' = Called("removeHead", r.ret)
  /\ UNCHANGED Program

CallIncr ==
  /\ calls.n < MaxCalls
  /\ ring' = ListIncr(ring)
  /\ calls' = Called("++", "")
  /\ UNCHANGED Program

NextList == CallInsert \/ CallRemoveHead \/ CallIncr

SpecList == InitList /\ [][NextList]_vars

(***************************************************************************)
(* Properties.                                                             *)
(***************************************************************************)
ShipWithId(list, id) == list[CHOOSE k \in 1..Len(list) : list[k].id = id]

RippleIds(list) == {list[k].id : k \in 1..Len(list)}

RippleWithId(list, id) == list[CHOOSE k \in 1..Len(list) : list[k].id = id]

IsTick == lastEvent.op = "tick"

\* The number of RADIUS_INCREMENTs in FINAL_RADIUS (0.5 / 0.01).
ExpiryTicks == (FINAL_RADIUS + RADIUS_INCREMENT \div 2) \div RADIUS_INCREMENT

\* C1: a timer tick is a filter-map on the ripple store: every ripple stored
\* before the tick has its radius increased by exactly RADIUS_INCREMENT, it
\* is kept iff the increased radius is below FINAL_RADIUS, and no other
\* ripple appears, whatever the order of the list.
C1_TickIsFilterMap ==
  [][lastEvent'.op = "tick" =>
       /\ RippleIds(circleList') \subseteq RippleIds(circleList)
       /\ \A k \in 1..Len(circleList) :
            LET c == circleList[k]
                r == FAdd32(c.rad, RADIUS_INCREMENT)
            IN IF r < FINAL_RADIUS
               THEN /\ c.id \in RippleIds(circleList')
                    /\ RippleWithId(circleList', c.id).rad = r
               ELSE c.id \notin RippleIds(circleList')]_vars

\* C2: a ripple created with radius 0 leaves the store on exactly the 50th
\* tick after its creation: a tick removes a stored ripple iff it is the
\* ripple's 50th tick.
C2_ExpiresOnTick50 ==
  [][lastEvent'.op = "tick" =>
       \A k \in 1..Len(circleList) :
          (circleList[k].id \notin RippleIds(circleList'))
            <=> (circleList[k].age + 1 = ExpiryTicks)]_vars

\* C3: over a whole tick a ship keeps its position unless some stored
\* ripple has colour none or the ship's own colour; a ripple of another
\* colour does not move the ship, even when the ship lies inside it.
C3_OnlyLikeColouredRipplesMoveShips ==
  [][lastEvent'.op = "tick" =>
       \A k \in 1..Len(shipList) :
          LET s == shipList[k]
          IN (\A j \in 1..Len(circleList') :
                 circleList'[j].clr # none /\ circleList'[j].clr # s.clr)
             => ShipWithId(shipList', s.id).pos = s.pos]_vars

\* C4: a tick with no stored ripple and no boundary hit advances the stored
\* position of every ship by exactly (xInc, yInc).
C4_TickAdvancesStoredPosition ==
  [][(lastEvent'.op = "tick" /\ circleList = <<>>) =>
       \A k \in 1..Len(shipList) :
          LET s == shipList[k]
              moved == <<FAdd(s.pos[1], s.xInc), FAdd(s.pos[2], s.yInc)>>
              inside ==
                /\ IsFinite(moved[1]) /\ IsFinite(moved[2])
                /\ Abs(moved[1]) * SHIP_RADIUS <= (windowWidth * Unit) \div 2
                /\ Abs(moved[2]) * SHIP_RADIUS <= (windowHeight * Unit) \div 2
          IN inside => ShipWithId(shipList', s.id).pos = moved]_vars

\* C5: in the displacement pass a ripple moves a ship only if its colour is
\* none or the ship's colour: a ship for which no stored ripple has such a
\* colour leaves the pass with its position, and its delta only normalized;
\* a single stored ripple of colour none that contains the ship displaces
\* it, whatever the ship's colour.
C5_DisplacementIsColourGated ==
  IsTick =>
    \A k \in 1..Len(log.ships0) :
       LET s0 == log.ships0[k]
           s1 == ShipWithId(log.disp, s0.id)
       IN /\ (\A j \in 1..Len(circleList) :
                 circleList[j].clr # none /\ circleList[j].clr # s0.clr)
             => (s1.pos = s0.pos /\ s1.delta = Normalize(s0.delta))
          /\ (Len(circleList) = 1 /\ circleList[1].clr = none
                /\ Contains(circleList[1], s0))
             => s1.pos = <<s0.pos[1] + Push(s0.pos[1] - circleList[1].pos[1], circleList[1].rad),
                           s0.pos[2] + Push(s0.pos[2] - circleList[1].pos[2], circleList[1].rad)>>

\* C5 witness: after a tick, a ship lies inside a ripple of another, non-none
\* colour and has left the displacement pass where it was.
C5_Witness ==
  /\ IsTick
  /\ \E k \in 1..Len(log.ships0) : \E j \in 1..Len(circleList) :
        /\ circleList[j].clr # none
        /\ circleList[j].clr # log.ships0[k].clr
        /\ Contains(circleList[j], log.ships0[k])
        /\ ShipWithId(log.disp, log.ships0[k].id).pos = log.ships0[k].pos

\* C6: a key press leaves every multiplier >= 0; the decrement key gives 0
\* at 0 and n-1 at n > 0, the increment key gives n+1, and the other keys
\* leave the multiplier alone.
KeyResult(m, key, dec, inc) ==
  IF key = dec THEN (IF m = 0 THEN 0 ELSE m - 1)
  ELSE IF key = inc THEN m + 1
  ELSE m

C6_MultiplierFloor ==
  [][lastEvent'.op = "key" =>
       /\ G_CohesionMultiplier' = KeyResult(G_CohesionMultiplier, lastEvent'.key, "k", "K")
       /\ G_AllignmentMultiplier' = KeyResult(G_AllignmentMultiplier, lastEvent'.key, "a", "A")
       /\ G_SeperationMultiplier' = KeyResult(G_SeperationMultiplier, lastEvent'.key, "s", "S")
       /\ G_CohesionMultiplier' >= 0
       /\ G_AllignmentMultiplier' >= 0
       /\ G_SeperationMultiplier' >= 0]_vars

\* C6 witness: the first event was the decrement key 'k', pressed at 0.
C6_Witness ==
  /\ lastEvent.op = "key" /\ lastEvent.key = "k"
  /\ used.events = 1
  /\ G_CohesionMultiplier = 0

\* C7: the ship store always holds exactly NBR_SHIPS ships, the ones that
\* InitShips created, each once.
C7_ShipPopulationFixed ==
  /\ getSize(shipList) = NBR_SHIPS
  /\ {shipList[k].id : k \in 1..Len(shipList)} = 1..NBR_SHIPS

\* C7 witness: a tick has run its four passes over the ships with a ripple
\* in the store.
C7_Witness == IsTick /\ circleList # <<>> /\ used.ticks = MaxTicks

\* C8: AdjustToWindow puts a ship found beyond an edge just inside that same
\* edge and negates the increment of that axis (right: W/2 - R, left:
\* -W/2 + R, top: H/2 - R, bottom: -H/2 + R).
C8_ClampInsideSameEdge ==
  IsTick =>
    \A k \in 1..Len(log.adj) :
       LET in == log.adj[k].in
           out == log.adj[k].out
           x == FMulInt(in.pos[1], SHIP_RADIUS)
           y == FMulInt(in.pos[2], SHIP_RADIUS)
           halfW == (windowWidth * Unit) \div 2
           halfH == (windowHeight * Unit) \div 2
       IN /\ FGt(x, halfW) =>
               (out.xInc = -in.xInc /\ out.pos[1] = windowWidth \div 2 - SHIP_RADIUS)
          /\ FLt(x, -halfW) =>
               (out.xInc = -in.xInc /\ out.pos[1] = -(windowWidth \div 2) + SHIP_RADIUS)
          /\ FGt(y, halfH) =>
               (out.yInc = -in.yInc /\ out.pos[2] = windowHeight \div 2 - SHIP_RADIUS)
          /\ FLt(y, -halfH) =>
               (out.yInc = -in.yInc /\ out.pos[2] = -(windowHeight \div 2) + SHIP_RADIUS)

\* C9: a ship whose position.x * SHIP_RADIUS exceeds windowWidth / 2 leaves
\* AdjustToWindow with xInc negated and position.x = windowWidth/2 -
\* SHIP_RADIUS; yInc and position.y are unchanged when neither the top nor
\* the bottom edge is exceeded.
C9_RightEdgeBounce ==
  IsTick =>
    \A k \in 1..Len(log.adj) :
       LET in == log.adj[k].in
           out == log.adj[k].out
           y == FMulInt(in.pos[2], SHIP_RADIUS)
           halfH == (windowHeight * Unit) \div 2
       IN FGt(FMulInt(in.pos[1], SHIP_RADIUS), (windowWidth * Unit) \div 2) =>
            /\ out.xInc = -in.xInc
            /\ out.pos[1] = windowWidth \div 2 - SHIP_RADIUS
            /\ (~FGt(y, halfH) /\ ~FLt(y, -halfH)) =>
                  (out.yInc = in.yInc /\ out.pos[2] = in.pos[2])

\* C9 witness: a tick adjusted a ship that was beyond the right edge and
\* beyond neither the top nor the bottom edge.
C9_Witness ==
  /\ IsTick
  /\ \E k \in 1..Len(log.adj) :
        LET in == log.adj[k].in
            y == FMulInt(in.pos[2], SHIP_RADIUS)
        IN /\ FGt(FMulInt(in.pos[1], SHIP_RADIUS), (windowWidth * Unit) \div 2)
           /\ ~FGt(y, (windowHeight * Unit) \div 2)
           /\ ~FLt(y, -((windowHeight * Unit) \div 2))
           /\ log.adj[k].out.xInc = -in.xInc

\* C10: a pointer press adds exactly one ripple, with radius INITIAL_RADIUS,
\* the mapped click coordinate as centre and the selected colour; a release
\* adds none; no click changes a stored ripple or a ship.
C10_ClickAddsOneRipple ==
  [][lastEvent'.op = "click" =>
       /\ shipList' = shipList
       /\ IF lastEvent'.state = "DOWN"
          THEN /\ Len(circleList') = Len(circleList) + 1
               /\ Tail(circleList') = circleList
               /\ Head(circleList').rad = INITIAL_RADIUS
               /\ Head(circleList').clr = currColor
               /\ Head(circleList').pos =
                    <<TruncDiv(windowWidth * lastEvent'.x, currWindowSize[1])
                        - windowWidth \div 2,
                      windowHeight \div 2
                        - TruncDiv(windowHeight * lastEvent'.y, currWindowSize[2])>>
          ELSE circleList' = circleList]_vars

\* C10 witness: a pointer press has added a ripple to a store that already
\* held one.
C10_Witness ==
  /\ lastEvent.op = "click" /\ lastEvent.state = "DOWN"
  /\ Len(circleList) = 2

\* C11: the cohesion and the alignment pass never divide by a tally of 0:
\* at every evaluation of sum / tally in CohesionShips or AllignmentShips,
\* the first ripple of the first ship included, tally > 0.
C11_TallyPositiveAtDivision ==
  IsTick =>
    /\ \A k \in 1..Len(log.cohDivs) : log.cohDivs[k] > 0
    /\ \A k \in 1..Len(log.aliDivs) : log.aliDivs[k] > 0

C13_StoredRadiusInRange ==
  /\ \A k \in 1..Len(circleList) :
        INITIAL_RADIUS <= circleList[k].rad /\ circleList[k].rad < FINAL_RADIUS
  /\ \A k \in 1..Len(log.grown) :
        INITIAL_RADIUS <= log.grown[k].rad /\ log.grown[k].rad < FINAL_RADIUS

\* C13 witness: a tick has grown a ripple to FINAL_RADIUS or more and removed
\* it, while another ripple stays stored and was handed to the passes.
C13_Witness ==
  /\ IsTick
  /\ log.grown # <<>>
  /\ \E k \in 1..Len(log.reads) :
        /\ log.reads[k].by = "TimerFunction"
        /\ log.reads[k].of = "circleList"
        /\ log.reads[k].id \notin RippleIds(circleList)

\* C14: the attributes given at creation never change: no tick, click, key
\* or redisplay changes the colour of a ship, nor the centre or the colour
\* of a ripple that stays stored (selecting another colour recolours no
\* ripple); and the colour of a ship is always one of the NBR_COLORS
\* drawable colours, never none.
C14_CreationAttributesImmutable ==
  [][/\ \A k \in 1..Len(shipList) :
          /\ ShipWithId(shipList', shipList[k].id).clr = shipList[k].clr
          /\ shipList[k].clr \in ShipColors
          /\ shipList[k].clr # none
     /\ \A k \in 1..Len(circleList) :
          circleList[k].id \in RippleIds(circleList') =>
             /\ RippleWithId(circleList', circleList[k].id).pos = circleList[k].pos
             /\ RippleWithId(circleList', circleList[k].id).clr = circleList[k].clr]_vars

\* C14 witness: a tick has grown a stored ripple whose colour is not the
\* colour selected now, next to ships it contains.
C14_Witness ==
  /\ IsTick
  /\ \E k \in 1..Len(circleList) :
        /\ circleList[k].clr # currColor
        /\ circleList[k].rad > INITIAL_RADIUS
        /\ \E j \in 1..Len(log.ships0) : Contains(circleList[k], log.ships0[j])

\* C15: Display is read-only: after a redisplay both lists hold the same
\* elements with the same field values, in the same cyclic order and with
\* the same head as before, whatever their sizes (an empty and a one-element
\* ripple list included).
C15_DisplayIsReadOnly ==
  [][lastEvent'.op = "display" =>
       /\ shipList' = shipList
       /\ circleList' = circleList
       /\ Len(log'.reads) = Len(shipList) + Len(circleList)]_vars

\* C15 witness: a redisplay has drawn two ripples of different radii and
\* the ships, reading the head of each list once per element.
C15_Witness ==
  /\ lastEvent.op = "display"
  /\ Len(circleList) = 2
  /\ circleList[1].rad # circleList[2].rad
  /\ Len(log.reads) = 2 + NBR_SHIPS

\* C16: when the cohesion multiplier is 0, every ship that enters the
\* cohesion pass inside at least one ripple leaves the pass at position
\* (0, 0), the first ship and the first ripple examined included.
C16_ZeroCohesionCollapsesToOrigin ==
  (IsTick /\ G_CohesionMultiplier = 0) =>
    \A k \in 1..Len(log.disp) :
       (\E j \in 1..Len(log.grown) : Contains(log.grown[j], log.disp[k]))
         => ShipWithId(log.coh, log.disp[k].id).pos = <<0, 0>>

\* The position the separation pass is to leave for a ship that enters it
\* at pos: one multiplication by the separation multiplier for each ripple,
\* taken in list order, that strictly contains the ship, whatever the
\* colours.
RECURSIVE SeperatedPosition(_, _, _)
SeperatedPosition(pos, circles, j) ==
  IF j > Len(circles) THEN pos
  ELSE LET dx == circles[j].pos[1] - pos[1]
           dy == circles[j].pos[2] - pos[2]
           r == RadiusUnits(circles[j].rad)
           inside == IsFinite(pos[1]) /\ IsFinite(pos[2])
                       /\ dx * dx + dy * dy < r * r
       IN SeperatedPosition(IF inside
                            THEN <<FMulInt(pos[1], G_SeperationMultiplier),
                                   FMulInt(pos[2], G_SeperationMultiplier)>>
                            ELSE pos,
                            circles, j + 1)

IsPass(name) == lastEvent.op = "pass" /\ lastEvent.key = name

ReadsBy(by, of) == SelectSeq(log.reads, LAMBDA r : r.by = by /\ r.of = of)

ValuesRead(reads) == [k \in 1..Len(reads) |-> reads[k].val]

\* The step of a tick a read belongs to, numbered in the order the
\* specification gives: ripples advanced, ship positions advanced,
\* displacement, cohesion, alignment, separation.
StepInSpecOrder(r) ==
  CASE r.by = "TimerFunction" /\ r.of = "circleList" -> 1
    [] r.by = "TimerFunction" /\ r.of = "shipList" -> 2
    [] r.by = "DisplaceShips" -> 3
    [] r.by = "CohesionShips" -> 4
    [] r.by = "AllignmentShips" -> 5
    [] r.by = "SeperationShips" -> 6
    [] OTHER -> 0

\* The same with the first two steps exchanged: the ship loop, then the
\* ripple loop.
StepInCodeOrder(r) ==
  CASE r.by = "TimerFunction" /\ r.of = "shipList" -> 1
    [] r.by = "TimerFunction" /\ r.of = "circleList" -> 2
    [] OTHER -> StepInSpecOrder(r)

\* Each force pass runs over the whole ship population and reads the ships
\* as the pass before it left them; the displacement pass reads the ripples
\* with the radii that the ripple loop of this tick gave them.
PassesChained ==
  /\ Len(ReadsBy("DisplaceShips", "shipList")) = Len(log.ships0)
  /\ ValuesRead(ReadsBy("CohesionShips", "shipList")) = log.disp
  /\ ValuesRead(ReadsBy("AllignmentShips", "shipList")) = log.coh
  /\ ValuesRead(ReadsBy("SeperationShips", "shipList")) = log.ali
  /\ \A k \in 1..Len(log.reads) :
        LET r == log.reads[k]
        IN /\ (r.by = "TimerFunction" /\ r.of = "circleList"
                 /\ r.id \in RippleIds(log.grown))
                => RippleWithId(log.grown, r.id).rad
                     = FAdd32(r.val.rad, RADIUS_INCREMENT)
           /\ (r.by = "DisplaceShips" /\ r.of = "circleList")
                => /\ r.id \in RippleIds(log.grown)
                   /\ r.val = RippleWithId(log.grown, r.id)

SquaredDistance(cir, shp) ==
  (cir.pos[1] - shp.pos[1]) * (cir.pos[1] - shp.pos[1])
    + (cir.pos[2] - shp.pos[2]) * (cir.pos[2] - shp.pos[2])

SquaredRadius(cir) == RadiusUnits(cir.rad) * RadiusUnits(cir.rad)

\* C19: containment is strict: a ripple couples with a ship only if the
\* squared distance between them is less than the squared radius.  A ship
\* that no ripple strictly contains, be it at a distance exactly equal to
\* the radius or at the centre of a ripple of radius 0, leaves the
\* displacement pass and the separation pass with its position.
C19_ContainmentIsStrict ==
  (IsPass("DisplaceShips") \/ IsPass("SeperationShips")) =>
    \A k \in 1..Len(log.ships0) :
       LET s0 == log.ships0[k]
       IN (\A j \in 1..Len(log.grown) :
              SquaredDistance(log.grown[j], s0) >= SquaredRadius(log.grown[j]))
          => ShipWithId(shipList, s0.id).pos = s0.pos

\* C19 witness: the separation pass, with multiplier 2, has left alone a
\* ship at a distance exactly equal to the radius of a ripple and a ship at
\* the centre of a ripple of radius 0, and has moved a ship strictly inside
\* a ripple.
C19_Witness ==
  /\ IsPass("SeperationShips")
  /\ G_SeperationMultiplier = 2
  /\ \E k \in 1..Len(log.ships0) : \E j \in 1..Len(log.grown) :
        /\ SquaredRadius(log.grown[j]) > 0
        /\ SquaredDistance(log.grown[j], log.ships0[k]) = SquaredRadius(log.grown[j])
        /\ ShipWithId(shipList, log.ships0[k].id).pos = log.ships0[k].pos
  /\ \E k \in 1..Len(log.ships0) : \E j \in 1..Len(log.grown) :
        /\ log.grown[j].rad = 0
        /\ log.grown[j].pos = log.ships0[k].pos
        /\ ShipWithId(shipList, log.ships0[k].id).pos = log.ships0[k].pos
  /\ \E k \in 1..Len(log.ships0) :
        ShipWithId(shipList, log.ships0[k].id).pos # log.ships0[k].pos

\* C20: each force pass processes every ship exactly once, in list order,
\* and for each ship examines every ripple exactly once, in list order; at
\* the end of the pass the ship list has the same cyclic order and the same
\* head as before and the ripple list is unchanged, for any numbers of
\* ships and ripples, 0 and 1 included.
C20_PassVisitsEachOnce ==
  lastEvent.op = "pass" =>
    LET n == Len(log.ships0)
        m == Len(log.grown)
    IN /\ Len(log.reads) = n * (m + 1)
       /\ \A k \in 1..n :
             LET base == (k - 1) * (m + 1) + 1
             IN /\ log.reads[base].by = lastEvent.key
                /\ log.reads[base].of = "shipList"
                /\ log.reads[base].val = log.ships0[k]
                /\ \A j \in 1..m :
                      /\ log.reads[base + j].by = lastEvent.key
                      /\ log.reads[base + j].of = "circleList"
                      /\ log.reads[base + j].val = log.grown[j]
       /\ Len(shipList) = n
       /\ \A k \in 1..n : shipList[k].id = log.ships0[k].id
       /\ circleList = log.grown

\* C20 witness: a pass has run over NBR_SHIPS ships and MaxRipples ripples
\* and has moved a ship.
C20_Witness ==
  /\ lastEvent.op = "pass"
  /\ Len(log.ships0) = NBR_SHIPS
  /\ Len(log.grown) = MaxRipples
  /\ \E k \in 1..Len(log.ships0) : shipList[k].pos # log.ships0[k].pos

\* A ripple couples with a ship in the displacement pass: its colour is
\* none or the colour of the ship, and the squared distance between them is
\* less than the squared radius.
DisplaceCoupled(cir, shp) ==
  /\ cir.clr = none \/ cir.clr = shp.clr
  /\ SquaredDistance(cir, shp) < SquaredRadius(cir)

\* C21: the displacement pass leaves unchanged the position of every ship
\* that is coupled to no ripple, that is, that no colour-compatible ripple
\* strictly contains; for such a ship only the delta vector is
\* renormalized, and its colour, xInc and yInc are untouched.
C21_UncoupledShipKeepsPosition ==
  IsPass("DisplaceShips") =>
    \A k \in 1..Len(log.ships0) :
       LET s0 == log.ships0[k]
           s1 == ShipWithId(shipList, s0.id)
       IN (\A j \in 1..Len(log.grown) : ~DisplaceCoupled(log.grown[j], s0))
          => /\ s1.pos = s0.pos
             /\ s1.delta = Normalize(s0.delta)
             /\ s1.clr = s0.clr
             /\ s1.xInc = s0.xInc
             /\ s1.yInc = s0.yInc

\* C21 witness: the displacement pass has left alone a ship that lies
\* strictly inside a ripple of another colour than its own and outside a
\* ripple of colour none.
C21_Witness ==
  /\ IsPass("DisplaceShips")
  /\ \E k \in 1..Len(log.ships0) :
        LET s0 == log.ships0[k]
        IN /\ \A j \in 1..Len(log.grown) : ~DisplaceCoupled(log.grown[j], s0)
           /\ \E j \in 1..Len(log.grown) :
                 /\ log.grown[j].clr \notin {none, s0.clr}
                 /\ SquaredDistance(log.grown[j], s0) < SquaredRadius(log.grown[j])
           /\ \E j \in 1..Len(log.grown) :
                 /\ log.grown[j].clr = none
                 /\ SquaredDistance(log.grown[j], s0) >= SquaredRadius(log.grown[j])
           /\ ShipWithId(shipList, s0.id) = s0

\* C22: a ship located exactly at the centre of a colour-compatible ripple
\* of nonzero radius is coupled by the displacement pass but receives a
\* zero displacement: when every ripple that couples with the ship is
\* centred on it, as is a ripple of radius 0.01 that was created at the
\* position of the ship and has grown for one tick, the ship leaves the
\* pass at the position it had.
C22_CentredShipIsNotDisplaced ==
  IsPass("DisplaceShips") =>
    \A k \in 1..Len(log.ships0) :
       LET s0 == log.ships0[k]
       IN (/\ \E j \in 1..Len(log.grown) :
                 /\ DisplaceCoupled(log.grown[j], s0)
                 /\ log.grown[j].pos = s0.pos
           /\ \A j \in 1..Len(log.grown) :
                 DisplaceCoupled(log.grown[j], s0) => log.grown[j].pos = s0.pos)
          => ShipWithId(shipList, s0.id).pos = s0.pos

\* C22 witness: the displacement pass has left in place a ship at the
\* centre of a ripple of its own colour that has grown once, to radius
\* 0.01, and has moved another ship.
C22_Witness ==
  /\ IsPass("DisplaceShips")
  /\ \E k \in 1..Len(log.ships0) : \E j \in 1..Len(log.grown) :
        /\ log.grown[j].rad = FAdd32(INITIAL_RADIUS, RADIUS_INCREMENT)
        /\ RadiusUnits(log.grown[j].rad) = 100
        /\ log.grown[j].clr = log.ships0[k].clr
        /\ log.grown[j].pos = log.ships0[k].pos
        /\ DisplaceCoupled(log.grown[j], log.ships0[k])
        /\ ShipWithId(shipList, log.ships0[k].id).pos = log.ships0[k].pos
  /\ \E k \in 1..Len(log.ships0) :
        ShipWithId(shipList, log.ships0[k].id).pos # log.ships0[k].pos

\* The addresses and the data of the nodes of a list, read from head along
\* next for size steps.
RECURSIVE WalkNodes(_, _, _)
WalkNodes(l, a, n) ==
  IF n = 0 THEN <<>> ELSE <<a>> \o WalkNodes(l, l.next[a], n - 1)

RingNodes(l) == WalkNodes(l, l.head, l.size)

RingData(l) == [k \in 1..l.size |-> l.data[RingNodes(l)[k]]]

\* C23: removeHead reports whether an element existed.  On an empty list it
\* returns false and leaves the list unchanged (head NULL, size 0).  On a
\* non-empty list it returns true, removes exactly the head element, makes
\* the former head's successor the new head (NULL when the head was the
\* only node) and decreases the size by one.  insert(x) followed by
\* removeHead restores the previous list content, order and head.
C23_RemoveHeadReportsAndRestores ==
  calls.op = "removeHead" =>
    /\ calls.before.size = 0 =>
          /\ calls.ret = FALSE
          /\ ring = calls.before
          /\ ring.head = NULL
          /\ ring.size = 0
    /\ calls.before.size > 0 =>
          /\ calls.ret = TRUE
          /\ RingNodes(ring) = Tail(RingNodes(calls.before))
          /\ RingData(ring) = Tail(RingData(calls.before))
          /\ ring.head = IF calls.before.size = 1 THEN NULL
                         ELSE calls.before.next[calls.before.head]
          /\ ring.size = calls.before.size - 1
          /\ ring.heap = calls.before.heap \ {calls.before.head}
    /\ calls.prevOp = "insert" =>
          /\ RingNodes(ring) = RingNodes(calls.before2)
          /\ RingData(ring) = RingData(calls.before2)
          /\ ring.head = calls.before2.head
          /\ ring.size = calls.before2.size
          /\ ring.next = calls.before2.next
          /\ ring.previous = calls.before2.previous

\* C23 witness: removeHead has returned false once, on the empty list, and
\* has now returned true on a list of three nodes whose head had just been
\* inserted.
C23_Witness ==
  /\ calls.op = "removeHead"
  /\ calls.ret = TRUE
  /\ calls.refused > 0
  /\ calls.prevOp = "insert"
  /\ calls.before.size = 3
  /\ calls.before.next[calls.before.head] # calls.before.previous[calls.before.head]
  /\ ring.size = 2

\* The node reached from a by n steps along next.
RECURSIVE Step(_, _, _)
Step(l, a, n) == IF n = 0 THEN a ELSE Step(l, l.next[a], n - 1)

\* C24: after any sequence of insert, removeHead and operator++ calls the
\* list is a well-formed circular doubly-linked ring: head is NULL iff size
\* is 0, following next from head returns to head after exactly size steps,
\* node.next.previous = node for every node, and getSize equals the number
\* of inserts minus the number of successful removeHead calls.
C24_WellFormedRing ==
  /\ ring.head = NULL <=> ring.size = 0
  /\ ring.size > 0 =>
        /\ Step(ring, ring.head, ring.size) = ring.head
        /\ \A k \in 1..(ring.size - 1) : Step(ring, ring.head, k) # ring.head
        /\ \A k \in 0..(ring.size - 1) : Step(ring, ring.head, k) \in ring.heap
  /\ \A a \in ring.heap : ring.previous[ring.next[a]] = a
  /\ ListGetSize(ring) = calls.inserts - calls.removed

\* C24 witness: insert, removeHead and operator++ have all been called,
\* removeHead has removed a node, and operator++ has just moved the head
\* of a list of at least two nodes.
C24_Witness ==
  /\ calls.op = "++"
  /\ calls.removed > 0
  /\ ring.size >= 2
  /\ ring.head # calls.before.head
  /\ ring.head = calls.before.next[calls.before.head]

\* The sequence operators insert, removeHead, Incr and getSize, which stand
\* for the member functions in the callbacks, agree with the member
\* functions on the pointer representation: the data read from head along
\* next change as the sequence does, and the heap holds the nodes of the
\* ring and no other.
ListAbstraction ==
  /\ calls.op = "insert" =>
        RingData(ring) = insert(RingData(calls.before), ring.data[ring.head])
  /\ calls.op = "removeHead" =>
        RingData(ring) = removeHead(RingData(calls.before))
  /\ calls.op = "++" =>
        /\ RingData(ring) = Incr(RingData(calls.before))
        /\ RingNodes(ring) = Incr(RingNodes(calls.before))
  /\ ListGetSize(ring) = getSize(RingData(ring))
  /\ ring.heap = {RingNodes(ring)[k] : k \in 1..ring.size}

====
